---- MODULE Spec2Model ----
(***************************************************************************)
(* Model of processor.py: the DataProcessor batch job.  One process is     *)
(* constructed per invocation (main), run() drives the five stages in      *)
(* sequence, and the two output files live in /tmp/cronjob_output.         *)
(*                                                                         *)
(* pandas values are modelled by what the calls compute: a missing key or  *)
(* a None becomes a null cell, .str.len() / .str.split().str.len() of a    *)
(* null cell is NaN, reductions skip NaN, groupby drops null keys and      *)
(* 'count' counts the non-null cells.                                      *)
(***************************************************************************)
EXTENDS Integers, Sequences, FiniteSets, TLC

VARIABLES
    fs,              \* the output directory: path -> file content
    clock,           \* datetime.now(): strictly increasing
    runs,            \* number of processes started so far
    pc,              \* position of the current process
    cronjob_name,    \* self.cronjob_name
    execution_uuid,  \* self.execution_uuid
    manual_trigger,  \* self.manual_trigger
    response,        \* fetch_sample_data's local: what the remote call produced
    used_fallback,   \* fetch_sample_data took its except branch
    raw_data,        \* value returned by fetch_sample_data
    processed_df,    \* value returned by process_data
    analysis,        \* value returned by perform_analysis
    batch,           \* loop index of simulate_work
    exc,             \* exception in flight inside run()
    failed_at,       \* the place that raised it
    trace,           \* stages started by this run, in order
    writes,          \* paths this run has written, in order
    status,          \* value returned by run()
    exit_code,       \* value handed to sys.exit
    history          \* finished runs, oldest first: id, status and, for a
                     \* successful run, what it saved

vars == <<fs, clock, runs, pc, cronjob_name, execution_uuid, manual_trigger,
          response, used_fallback, raw_data, processed_df, analysis, batch,
          exc, failed_at, trace, writes, status, exit_code, history>>

----------------------------------------------------------------------------
(* Bounds of the model *)

MaxRuns == 2
MaxRecords == 2

(* Program constants *)

FetchLimit == 10
MockCount == 10
MockGroups == 3
NumBatches == 3

----------------------------------------------------------------------------
(* Cells.  A cell is a value, a null (None / NaN) or an absent key. *)

IntVal(n) == [tag |-> "val", v |-> n]
IntNull == [tag |-> "null", v |-> 0]
IntAbsent == [tag |-> "absent", v |-> 0]
StrVal(s) == [tag |-> "val", v |-> s]
StrNull == [tag |-> "null", v |-> <<>>]
StrAbsent == [tag |-> "absent", v |-> <<>>]

(* Numbers computed by pandas: an integer or NaN. *)
Num(n) == [nan |-> FALSE, v |-> n]
NaN == [nan |-> TRUE, v |-> 0]

Columns == {"id", "title", "body", "userId"}

None == [kind |-> "none"]

----------------------------------------------------------------------------
(* Integer helpers *)

MinOf(S) == CHOOSE x \in S : \A y \in S : x <= y
MaxOf(S) == CHOOSE x \in S : \A y \in S : x >= y

(* DataFrame.round(2) of num/den, in hundredths: numpy rounds half to even. *)
Round2(num, den) ==
    LET q == (num * 100) \div den
        r == (num * 100) % den
    IN  IF 2 * r < den THEN q
        ELSE IF 2 * r > den THEN q + 1
        ELSE IF q % 2 = 0 THEN q ELSE q + 1

----------------------------------------------------------------------------
(* _generate_mock_data *)

DigitChar(d) == <<"0", "1", "2", "3", "4", "5", "6", "7", "8", "9">>[d + 1]

(* str(n) for 0 <= n < 100 *)
Digits(n) ==
    IF n < 10 THEN <<DigitChar(n)>> ELSE <<DigitChar(n \div 10), DigitChar(n % 10)>>

MockTitle(n) == <<"S","a","m","p","l","e"," ","D","a","t","a"," ","E","n","t","r","y"," ">>
                    \o Digits(n)
MockBody(n) == <<"T","h","i","s"," ","i","s"," ","m","o","c","k"," ","d","a","t","a"," ",
                 "e","n","t","r","y"," ","n","u","m","b","e","r"," ">> \o Digits(n)

(* (i % 3) + 1 *)
MockUserId(i) == (i % MockGroups) + 1

generate_mock_data ==
    [k \in 1..MockCount |->
        LET i == k - 1 IN
        [id |-> IntVal(i + 1),
         title |-> StrVal(MockTitle(i + 1)),
         body |-> StrVal(MockBody(i + 1)),
         userId |-> IntVal(MockUserId(i))]]

----------------------------------------------------------------------------
(* process_data *)

(* A character is a one-character string; a character that a string      *)
(* literal cannot hold is written as the name of its code point.          *)
(* str.split() with no separator splits at the characters for which       *)
(* str.isspace() holds.                                                   *)
Whitespace ==
    {"\t", "\n", "U+000B", "\f", "\r", "U+001C", "U+001D", "U+001E", "U+001F", " ",
     "U+0085", "U+00A0", "U+1680",
     "U+2000", "U+2001", "U+2002", "U+2003", "U+2004", "U+2005", "U+2006",
     "U+2007", "U+2008", "U+2009", "U+200A",
     "U+2028", "U+2029", "U+202F", "U+205F", "U+3000"}

IsSpace(c) == c \in Whitespace

(* len(body.split()): the number of maximal runs of non-whitespace. *)
WordCount(s) ==
    Cardinality({i \in 1..Len(s) : ~IsSpace(s[i]) /\ (i = 1 \/ IsSpace(s[i - 1]))})

(* Series.str.len() and Series.str.split().str.len(): NaN on a null cell. *)
StrLen(cell) == IF cell.tag = "val" THEN Num(Len(cell.v)) ELSE NaN
SplitLen(cell) == IF cell.tag = "val" THEN Num(WordCount(cell.v)) ELSE NaN

(* pd.DataFrame(list of dicts): the columns are the union of the keys; a *)
(* key missing from one record is a null cell.                           *)
FrameColumns(items) ==
    {c \in Columns : \E i \in 1..Len(items) : items[i][c].tag # "absent"}

Fill(cell) == IF cell.tag = "absent" THEN [cell EXCEPT !.tag = "null"] ELSE cell

FrameRows(items) ==
    [i \in 1..Len(items) |->
        [id |-> Fill(items[i].id), title |-> Fill(items[i].title),
         body |-> Fill(items[i].body), userId |-> Fill(items[i].userId)]]

(* The column holds no string at all: .str.len() leaves an object column  *)
(* of None, whose later reductions differ between pandas versions.        *)
AllNull(items, c) == \A i \in 1..Len(items) : items[i][c].tag # "val"

Derive(row, now) ==
    [id |-> row.id, title |-> row.title, body |-> row.body, userId |-> row.userId,
     processed_at |-> now,
     title_length |-> StrLen(row.title),
     body_word_count |-> SplitLen(row.body)]

Transform(items, now) ==
    [i \in 1..Len(items) |-> Derive(FrameRows(items)[i], now)]

(* The exception process_data raises on this value, or "none". *)
ProcessError(raw) ==
    IF raw.kind = "str" THEN "ValueError"        \* DataFrame constructor
    ELSE IF raw.kind = "scalars" THEN "KeyError" \* df['title']
    ELSE IF FrameColumns(raw.items) # Columns THEN "KeyError"
    ELSE "none"

----------------------------------------------------------------------------
(* perform_analysis *)

Idx(df) == 1..Len(df)

(* groupby('userId'): rows with a null key are dropped (dropna=True). *)
GroupKeys(df) == {df[i].userId.v : i \in {j \in Idx(df) : df[j].userId.tag = "val"}}

GroupRows(df, g) == {i \in Idx(df) : df[i].userId.tag = "val" /\ df[i].userId.v = g}

(* 'count': the non-null cells of the column. *)
CountNonNull(df, S) == Cardinality({i \in S : df[i].id.tag = "val"})

Known(df, S, col) == {i \in S : ~df[i][col].nan}

(* 'sum' (skipna): the known cells among rows S, taken in row order. *)
RECURSIVE SumUpTo(_, _, _, _)
SumUpTo(df, S, col, n) ==
    IF n = 0 THEN 0
    ELSE SumUpTo(df, S, col, n - 1)
            + (IF n \in S /\ ~df[n][col].nan THEN df[n][col].v ELSE 0)

SumCol(df, S, col) == SumUpTo(df, S, col, Len(df))

(* 'mean' followed by round(2): hundredths, NaN when nothing is known. *)
MeanCol2(df, S, col) ==
    IF Known(df, S, col) = {} THEN NaN
    ELSE Num(Round2(SumCol(df, S, col), Cardinality(Known(df, S, col))))

(* Series.mean(): kept exact as a fraction. *)
MeanCol(df, S, col) ==
    IF Known(df, S, col) = {} THEN [nan |-> TRUE, num |-> 0, den |-> 1]
    ELSE [nan |-> FALSE, num |-> SumCol(df, S, col),
          den |-> Cardinality(Known(df, S, col))]

UserBreakdown(df) ==
    [g \in GroupKeys(df) |->
        [id |-> CountNonNull(df, GroupRows(df, g)),
         title_length |-> MeanCol2(df, GroupRows(df, g), "title_length"),
         body_word_count |-> SumCol(df, GroupRows(df, g), "body_word_count")]]

TitleLengths(df) == {df[i].title_length.v : i \in Known(df, Idx(df), "title_length")}

MinTitleLength(df) == MinOf(TitleLengths(df))
MaxTitleLength(df) == MaxOf(TitleLengths(df))

DataSummary(df) ==
    [total_records |-> Len(df),
     unique_users |-> Cardinality(GroupKeys(df)),
     avg_title_length |-> MeanCol(df, Idx(df), "title_length"),
     total_words |-> SumCol(df, Idx(df), "body_word_count"),
     min_title_length |-> MinTitleLength(df),
     max_title_length |-> MaxTitleLength(df)]

(* int(NaN): min()/max() of a column with no known value. *)
AnalysisError(df) ==
    IF TitleLengths(df) = {} THEN "ValueError" ELSE "none"

Analyse(df, name, uuid, trigger, now) ==
    [kind |-> "analysis",
     execution_info |-> [cronjob_name |-> name, execution_uuid |-> uuid,
                         manual_trigger |-> trigger, processed_at |-> now],
     data_summary |-> DataSummary(df),
     user_breakdown |-> UserBreakdown(df)]

----------------------------------------------------------------------------
(* Exceptions.  Every class a stage raises derives from Exception; the    *)
(* first set derives from requests.RequestException.                      *)

RequestExceptions == {"Timeout", "ConnectionError", "HTTPError", "JSONDecodeError"}
OtherExceptions ==
    {"TypeError", "ValueError", "KeyError", "OSError", "MemoryError", "RecursionError"}

CaughtByFetch(e) == e \in RequestExceptions

(* Variant: a handler as narrow as the one of fetch_sample_data. *)
CaughtOnlyRequest(e) == e \in RequestExceptions

(* run(): except Exception *)
CaughtByRun(e) == e \in RequestExceptions \cup OtherExceptions

----------------------------------------------------------------------------
(* Environment and remote inputs *)

(* A variable of the environment: set to a value, or not set. *)
Set(v) == [set |-> TRUE, v |-> v]
Unset == [set |-> FALSE, v |-> ""]
UnsetChars == [set |-> FALSE, v |-> <<>>]

(* os.getenv(key, default) *)
getenv(var, default) == IF var.set THEN var.v ELSE default

(* os.getenv('MANUAL_TRIGGER', 'false').lower() == 'true'.  str.lower()  *)
(* yields 'true' on exactly the four-character strings spelling it in     *)
(* either case: no other character, and no character that lowers to more  *)
(* than one, lowers to a letter of 'true'.                                *)
LowersToTrue(s) ==
    /\ Len(s) = 4
    /\ s[1] \in {"t", "T"}
    /\ s[2] \in {"r", "R"}
    /\ s[3] \in {"u", "U"}
    /\ s[4] \in {"e", "E"}

ManualTrigger(var) == LowersToTrue(getenv(var, <<"f", "a", "l", "s", "e">>))

DefaultName == "dockerfile-data-processor"
DefaultUuid == "local-run"

(* The environments a process is started in. *)
Environments ==
    { [CRONJOB_NAME |-> Unset, CRONJOB_EXECUTION_UUID |-> Unset,
       MANUAL_TRIGGER |-> UnsetChars],
      [CRONJOB_NAME |-> Unset, CRONJOB_EXECUTION_UUID |-> Set("local-run"),
       MANUAL_TRIGGER |-> Set(<<"1">>)],
      [CRONJOB_NAME |-> Set("nightly-report"), CRONJOB_EXECUTION_UUID |-> Set("job-1"),
       MANUAL_TRIGGER |-> Set(<<"T", "r", "u", "e">>)],
      [CRONJOB_NAME |-> Unset, CRONJOB_EXECUTION_UUID |-> Unset,
       MANUAL_TRIGGER |-> Set(<<"t", "r", "u", "e">>)],
      [CRONJOB_NAME |-> Unset, CRONJOB_EXECUTION_UUID |-> Unset,
       MANUAL_TRIGGER |-> Set(<<"t", "r", "u", "U+00C9">>)],
      [CRONJOB_NAME |-> Unset, CRONJOB_EXECUTION_UUID |-> Unset,
       MANUAL_TRIGGER |-> Set(<<"t", "r", "u", "e", " ">>)] }

Post(k, uid) ==
    [id |-> IntVal(k), title |-> StrVal(<<"p", "o", "s", "t", " ">> \o Digits(k)),
     body |-> StrVal(<<"q", "u", "i", "a", " ", "e", "t", "\r", "\n", "s", "u", "s",
                       "\f", "e", "s", "t", "U+00A0", "r", "e", "m">>),
     userId |-> IntVal(uid)]

(* The remote endpoint's shape: ten posts per user, more than the limit. *)
Posts(n) == [k \in 1..n |-> Post(k, ((k - 1) \div 10) + 1)]

SampleArrays ==
    { <<>>,
      Posts(FetchLimit + 2),
      <<Post(1, 1), [Post(2, 2) EXCEPT !.title = StrNull, !.userId = IntNull]>>,
      <<[Post(1, 1) EXCEPT !.title = StrNull]>>,
      <<[Post(1, 1) EXCEPT !.body = StrAbsent]>> }

Records(items) == [kind |-> "records", items |-> items]

Responses ==
    [kind : {"Timeout", "ConnectionError", "HTTPError", "invalid_json", "json_deep",
             "json_bigint", "json_object", "json_null", "json_string",
             "json_scalars"},
     items : {<<>>}]
    \cup {Records(a) : a \in SampleArrays}

(* data[:10] *)
Head10(items) == SubSeq(items, 1, IF Len(items) < FetchLimit THEN Len(items) ELSE FetchLimit)

(* The exceptions fetch_sample_data's try block can raise on this outcome, *)
(* {"none"} when it raises nothing.  On a body that is not JSON,           *)
(* response.json() raises requests' JSONDecodeError from requests 2.27 on  *)
(* and json.JSONDecodeError, a ValueError, before; on a body nested too    *)
(* deeply it raises RecursionError; on an array holding an integer of     *)
(* more than 4300 digits it raises a plain ValueError where Python limits  *)
(* the conversion and returns the array where it does not.  data[:10] on a *)
(* dict is a TypeError up to Python 3.11 and a KeyError from 3.12 on,      *)
(* where a slice is hashable.                                              *)
FetchError(resp) ==
    IF resp.kind \in {"Timeout", "ConnectionError", "HTTPError"} THEN {resp.kind}
    ELSE IF resp.kind = "invalid_json" THEN {"JSONDecodeError", "ValueError"}
    ELSE IF resp.kind = "json_deep" THEN {"RecursionError"}
    ELSE IF resp.kind = "json_bigint" THEN {"ValueError", "none"}
    ELSE IF resp.kind = "json_object" THEN {"TypeError", "KeyError"}
    ELSE IF resp.kind = "json_null" THEN {"TypeError"}
    ELSE {"none"}

(* The value returned when the try block raises nothing: the first ten   *)
(* records, a str, or a list of numbers.                                  *)
FetchValue(resp) ==
    IF resp.kind = "records" THEN Records(Head10(resp.items))
    ELSE IF resp.kind = "json_string" THEN [kind |-> "str", items |-> <<>>]
    ELSE [kind |-> "scalars", items |-> <<>>]

----------------------------------------------------------------------------
(* Output files *)

OutputDir == "/tmp/cronjob_output"

(* Variant: a path that leaves the execution id out. *)
CsvPathFixed(uuid) == OutputDir \o "/processed_data.csv"
CsvPath(uuid) == OutputDir \o "/processed_data_" \o uuid \o ".csv"
JsonPath(uuid) == OutputDir \o "/analysis_" \o uuid \o ".json"

File(data) == [data |-> data, complete |-> TRUE]
Partial(data) == [data |-> data, complete |-> FALSE]

Put(f, p, c) == [q \in (DOMAIN f) \cup {p} |-> IF q = p THEN c ELSE f[q]]

----------------------------------------------------------------------------
(* The process *)

Stages == <<"fetch", "process", "analysis", "save", "simulate">>

Raise(e, where) ==
    /\ exc' = e
    /\ failed_at' = where
    /\ pc' = "except"

Init ==
    /\ fs = <<>>
    /\ clock = 0
    /\ runs = 0
    /\ pc = "new"
    /\ cronjob_name = DefaultName
    /\ execution_uuid = DefaultUuid
    /\ manual_trigger = FALSE
    /\ response = None
    /\ used_fallback = FALSE
    /\ raw_data = None
    /\ processed_df = None
    /\ analysis = None
    /\ batch = 0
    /\ exc = "none"
    /\ failed_at = "none"
    /\ trace = <<>>
    /\ writes = <<>>
    /\ status = -1
    /\ exit_code = -1
    /\ history = <<>>

(* datetime.now() is read at these lines of a run; the k-th process starts *)
(* later than every reading of the ones before it.                         *)
NowCallSites == {31, 84, 121, 202}

StartTime(k) == k * Cardinality(NowCallSites) + 1

(* main(): DataProcessor() and the call of run(). *)
main ==
    /\ pc \in {"new", "exited"}
    /\ runs < MaxRuns
    /\ \E env \in Environments :
          /\ cronjob_name' = getenv(env.CRONJOB_NAME, DefaultName)
          /\ execution_uuid' = getenv(env.CRONJOB_EXECUTION_UUID, DefaultUuid)
          /\ manual_trigger' = ManualTrigger(env.MANUAL_TRIGGER)
    /\ runs' = runs + 1
    /\ clock' = StartTime(runs)
    /\ pc' = "fetch"
    /\ response' = None
    /\ used_fallback' = FALSE
    /\ raw_data' = None
    /\ processed_df' = None
    /\ analysis' = None
    /\ batch' = 0
    /\ exc' = "none"
    /\ failed_at' = "none"
    /\ trace' = <<>>
    /\ writes' = <<>>
    /\ status' = -1
    /\ exit_code' = -1
    /\ UNCHANGED <<fs, history>>

(* fetch_sample_data, the try block: requests.get, raise_for_status, *)
(* response.json()[:10]                                               *)
fetch_request ==
    /\ pc = "fetch"
    /\ trace' = Append(trace, "fetch")
    /\ \E resp \in Responses : response' = resp
    /\ pc' = "fetch_result"
    /\ UNCHANGED <<fs, clock, runs, cronjob_name, execution_uuid,
                   manual_trigger, used_fallback, raw_data, processed_df,
                   analysis, batch, exc, failed_at, writes, status, exit_code,
                   history>>

(* fetch_sample_data, the way out: return data, the except clause, or *)
(* an exception the clause does not name                              *)
fetch_sample_data ==
    /\ pc = "fetch_result"
    /\ response' = None
    /\ \/ /\ \E e \in FetchError(response) \ {"none"} :
                /\ CaughtByFetch(e)
                /\ used_fallback' = TRUE
                /\ raw_data' = Records(generate_mock_data)
                /\ pc' = "process"
          /\ UNCHANGED <<exc, failed_at>>
       \/ /\ \E e \in FetchError(response) \ {"none"} :
                /\ ~CaughtByFetch(e)
                /\ Raise(e, "fetch")
          /\ UNCHANGED <<raw_data, used_fallback>>
       \/ /\ "none" \in FetchError(response)
          /\ raw_data' = FetchValue(response)
          /\ pc' = "process"
          /\ UNCHANGED <<exc, failed_at, used_fallback>>
    /\ UNCHANGED <<fs, clock, runs, cronjob_name, execution_uuid,
                   manual_trigger, processed_df, analysis, batch, trace,
                   writes, status, exit_code, history>>

process_data ==
    /\ pc = "process"
    /\ trace' = Append(trace, "process")
    /\ clock' = clock + 1
    /\ \/ /\ ProcessError(raw_data) # "none"
          /\ Raise(ProcessError(raw_data), "process")
          /\ UNCHANGED processed_df
       \/ /\ ProcessError(raw_data) = "none"
          /\ processed_df' = Transform(raw_data.items, clock')
          /\ pc' = "analysis"
          /\ UNCHANGED <<exc, failed_at>>
       \/ \* a text column holding no string at all: .str.len() leaves an
          \* object column of None, whose groupby reduction raises in some
          \* pandas versions and yields NaN in others
          /\ ProcessError(raw_data) = "none"
          /\ AllNull(raw_data.items, "title") \/ AllNull(raw_data.items, "body")
          /\ Raise("TypeError", "process")
          /\ UNCHANGED processed_df
    /\ UNCHANGED <<fs, runs, cronjob_name, execution_uuid, manual_trigger,
                   response, used_fallback, raw_data, analysis, batch, writes,
                   status, exit_code, history>>

perform_analysis ==
    /\ pc = "analysis"
    /\ trace' = Append(trace, "analysis")
    /\ clock' = clock + 1
    /\ \/ /\ AnalysisError(processed_df) # "none"
          /\ Raise(AnalysisError(processed_df), "analysis")
          /\ UNCHANGED analysis
       \/ /\ AnalysisError(processed_df) = "none"
          /\ analysis' = Analyse(processed_df, cronjob_name, execution_uuid,
                                 manual_trigger, clock')
          /\ pc' = "save_csv"
          /\ UNCHANGED <<exc, failed_at>>
    /\ UNCHANGED <<fs, runs, cronjob_name, execution_uuid, manual_trigger,
                   response, used_fallback, raw_data, processed_df, batch,
                   writes, status, exit_code, history>>

(* save_results, first half: os.makedirs and df.to_csv *)
save_results_csv ==
    /\ pc = "save_csv"
    /\ trace' = Append(trace, "save")
    /\ \/ \* the directory cannot be made or the file cannot be opened
          /\ Raise("OSError", "save:csv_open")
          /\ UNCHANGED <<fs, writes>>
       \/ \* the write stops part-way
          /\ fs' = Put(fs, CsvPath(execution_uuid), Partial(processed_df))
          /\ Raise("OSError", "save:csv_write")
          /\ UNCHANGED writes
       \/ /\ fs' = Put(fs, CsvPath(execution_uuid), File(processed_df))
          /\ writes' = Append(writes, CsvPath(execution_uuid))
          /\ pc' = "save_json"
          /\ UNCHANGED <<exc, failed_at>>
    /\ UNCHANGED <<clock, runs, cronjob_name, execution_uuid, manual_trigger,
                   response, used_fallback, raw_data, processed_df, analysis,
                   batch, status, exit_code, history>>

(* Variant: the CSV is removed again when the report cannot be written. *)
save_results_json_rollback ==
    /\ pc = "save_json"
    /\ \/ /\ Raise("OSError", "save:json_open")
          /\ fs' = [q \in (DOMAIN fs) \ {CsvPath(execution_uuid)} |-> fs[q]]
          /\ UNCHANGED writes
       \/ /\ fs' = Put(fs, JsonPath(execution_uuid), File(analysis))
          /\ writes' = Append(writes, JsonPath(execution_uuid))
          /\ pc' = "save_sizes"
          /\ UNCHANGED <<exc, failed_at>>
    /\ UNCHANGED <<clock, runs, cronjob_name, execution_uuid, manual_trigger,
                   response, used_fallback, raw_data, processed_df, analysis,
                   batch, trace, status, exit_code, history>>

(* Variant: a failure to write the report is swallowed. *)
save_results_json_swallow ==
    /\ pc = "save_json"
    /\ \/ /\ pc' = "save_sizes"
          /\ UNCHANGED <<fs, writes>>
       \/ /\ fs' = Put(fs, JsonPath(execution_uuid), File(analysis))
          /\ writes' = Append(writes, JsonPath(execution_uuid))
          /\ pc' = "save_sizes"
    /\ UNCHANGED <<clock, runs, cronjob_name, execution_uuid, manual_trigger,
                   response, used_fallback, raw_data, processed_df, analysis,
                   batch, exc, failed_at, trace, status, exit_code, history>>

(* save_results, second part: open(json_path, 'w') and json.dump.  The    *)
(* dump stops on a failed write (OSError) or on a value it cannot         *)
(* serialise (TypeError: a numpy scalar left in the breakdown by a pandas *)
(* that does not box them).                                               *)
save_results_json ==
    /\ pc = "save_json"
    /\ \/ /\ Raise("OSError", "save:json_open")
          /\ UNCHANGED <<fs, writes>>
       \/ /\ fs' = Put(fs, JsonPath(execution_uuid), Partial(analysis))
          /\ \E e \in {"OSError", "TypeError"} : Raise(e, "save:json_write")
          /\ UNCHANGED writes
       \/ /\ fs' = Put(fs, JsonPath(execution_uuid), File(analysis))
          /\ writes' = Append(writes, JsonPath(execution_uuid))
          /\ pc' = "save_sizes"
          /\ UNCHANGED <<exc, failed_at>>
    /\ UNCHANGED <<clock, runs, cronjob_name, execution_uuid, manual_trigger,
                   response, used_fallback, raw_data, processed_df, analysis,
                   batch, trace, status, exit_code, history>>

(* save_results, last part: os.path.getsize of the two paths.  Either    *)
(* call raises OSError when the path can no longer be examined.           *)
save_results_sizes ==
    /\ pc = "save_sizes"
    /\ \/ /\ Raise("OSError", "save:csv_size")
       \/ /\ Raise("OSError", "save:json_size")
       \/ /\ pc' = "simulate"
          /\ UNCHANGED <<exc, failed_at>>
    /\ UNCHANGED <<fs, clock, runs, cronjob_name, execution_uuid,
                   manual_trigger, response, used_fallback, raw_data,
                   processed_df, analysis, batch, trace, writes, status,
                   exit_code, history>>

(* simulate_work: one iteration of its loop *)
simulate_work ==
    /\ pc = "simulate"
    /\ batch < NumBatches
    /\ trace' = IF batch = 0 THEN Append(trace, "simulate") ELSE trace
    /\ \/ /\ Raise("MemoryError", "simulate")
          /\ UNCHANGED batch
       \/ /\ batch' = batch + 1
          /\ pc' = IF batch + 1 = NumBatches THEN "finish" ELSE "simulate"
          /\ UNCHANGED <<exc, failed_at>>
    /\ UNCHANGED <<fs, clock, runs, cronjob_name, execution_uuid,
                   manual_trigger, response, used_fallback, raw_data,
                   processed_df, analysis, writes, status, exit_code, history>>

(* run(): the end of the try block *)
run_return ==
    /\ pc = "finish"
    /\ clock' = clock + 1
    /\ status' = 0
    /\ pc' = "returned"
    /\ UNCHANGED <<fs, runs, cronjob_name, execution_uuid, manual_trigger,
                   response, used_fallback, raw_data, processed_df, analysis,
                   batch, exc, failed_at, trace, writes, exit_code, history>>

(* run(): except Exception *)
run_except ==
    /\ pc = "except"
    /\ IF CaughtByRun(exc)
       THEN /\ status' = 1
            /\ pc' = "returned"
       ELSE /\ status' = status
            /\ pc' = "raised"
    /\ UNCHANGED <<fs, clock, runs, cronjob_name, execution_uuid,
                   manual_trigger, response, used_fallback, raw_data,
                   processed_df, analysis, batch, exc, failed_at, trace,
                   writes, exit_code, history>>

(* main(): sys.exit(exit_code) *)
main_exit ==
    /\ pc = "returned"
    /\ exit_code' = status
    /\ history' = Append(history,
                         IF status = 0
                         THEN [uuid |-> execution_uuid, status |-> status,
                               df |-> processed_df, analysis |-> analysis]
                         ELSE [uuid |-> execution_uuid, status |-> status,
                               df |-> None, analysis |-> None])
    /\ pc' = "exited"
    /\ UNCHANGED <<fs, clock, runs, cronjob_name, execution_uuid,
                   manual_trigger, response, used_fallback, raw_data,
                   processed_df, analysis, batch, exc, failed_at, trace,
                   writes, status>>

Next ==
    \/ main
    \/ fetch_request
    \/ fetch_sample_data
    \/ process_data
    \/ perform_analysis
    \/ save_results_csv
    \/ save_results_json
    \/ save_results_sizes
    \/ simulate_work
    \/ run_return
    \/ run_except
    \/ main_exit

Spec == Init /\ [][Next]_vars

----------------------------------------------------------------------------
(* The transform and the analysis on every record list up to MaxRecords.  *)

IdCells == {IntVal(1), IntNull, IntAbsent}
TitleCells == {StrVal(<<"a">>), StrVal(<<"a", "b", "c">>), StrNull, StrAbsent}
BodyCells == {StrVal(<<"a", " ", "b">>), StrVal(<<>>), StrNull, StrAbsent}
UserIdCells == {IntVal(1), IntVal(2), IntNull, IntAbsent}

RawRecords == [id : IdCells, title : TitleCells, body : BodyCells, userId : UserIdCells]

RecordLists == UNION {[1..n -> RawRecords] : n \in 0..MaxRecords}

InitData ==
    /\ fs = <<>>
    /\ clock = 1
    /\ runs = 1
    /\ pc = "process"
    /\ \E env \in Environments :
          /\ cronjob_name = getenv(env.CRONJOB_NAME, DefaultName)
          /\ execution_uuid = getenv(env.CRONJOB_EXECUTION_UUID, DefaultUuid)
          /\ manual_trigger = ManualTrigger(env.MANUAL_TRIGGER)
    /\ response = None
    /\ used_fallback = FALSE
    /\ \E items \in RecordLists : raw_data = Records(items)
    /\ processed_df = None
    /\ analysis = None
    /\ batch = 0
    /\ exc = "none"
    /\ failed_at = "none"
    /\ trace = <<"fetch">>
    /\ writes = <<>>
    /\ status = -1
    /\ exit_code = -1
    /\ history = <<>>

NextData == process_data \/ perform_analysis

SpecData == InitData /\ [][NextData]_vars

----------------------------------------------------------------------------
(* Properties *)

Range(s) == {s[i] : i \in DOMAIN s}

RECURSIVE SumOver(_, _)
SumOver(S, f) ==
    IF S = {} THEN 0
    ELSE LET x == CHOOSE y \in S : TRUE IN f[x] + SumOver(S \ {x}, f)

IsPrefix(t, s) == Len(t) <= Len(s) /\ \A i \in 1..Len(t) : t[i] = s[i]

Returned == pc \in {"returned", "exited"}

FailedStage ==
    IF failed_at \in {"save:csv_open", "save:csv_write", "save:json_open",
                      "save:json_write", "save:csv_size", "save:json_size"}
    THEN "save" ELSE failed_at

HasFile(p, c) == p \in DOMAIN fs /\ fs[p] = c

BothWritten ==
    /\ writes = <<CsvPath(execution_uuid), JsonPath(execution_uuid)>>
    /\ HasFile(CsvPath(execution_uuid), File(processed_df))
    /\ HasFile(JsonPath(execution_uuid), File(analysis))
    /\ fs[JsonPath(execution_uuid)].data.data_summary
          = DataSummary(fs[CsvPath(execution_uuid)].data)
    /\ fs[JsonPath(execution_uuid)].data.user_breakdown
          = UserBreakdown(fs[CsvPath(execution_uuid)].data)

(* C1: once fetch_sample_data has acted, it has raised nothing into run() *)
(* and has returned a list of records, whatever the remote call produced. *)
C1_FetchNeverFailsOutward ==
    ("fetch" \in Range(trace) /\ pc # "fetch_result") =>
        /\ failed_at # "fetch"
        /\ raw_data.kind = "records"

(* C2: run() never raises and never gets stuck; once it has returned, its *)
(* value is 0 exactly when every stage completed without an exception and *)
(* 1 when a stage raised one; main() exits with that value.               *)
C2_RunAlwaysReturnsStatus ==
    /\ pc # "raised"
    /\ (pc \notin {"new", "exited"}) => ENABLED Next
    /\ Returned =>
          /\ status \in {0, 1}
          /\ (status = 0) <=> (failed_at = "none")
          /\ (status = 0) => (trace = Stages /\ batch = 3)
          /\ (status = 1) <=> (failed_at # "none")
    /\ (pc = "exited") => (exit_code = status)

C2_Witness ==
    /\ pc = "exited"
    /\ Len(history) = 2
    /\ history[1].status = 0
    /\ history[2].status = 1
    /\ failed_at = "process"

FallbackDatasetReturned ==
    /\ failed_at # "fetch"
    /\ raw_data.kind = "records"
    /\ Len(raw_data.items) = 10
    /\ \A i \in 0..9 :
          /\ raw_data.items[i + 1].id = IntVal(i + 1)
          /\ raw_data.items[i + 1].userId = IntVal((i % 3) + 1)
    /\ [k \in 1..10 |-> raw_data.items[k].userId.v] = <<1, 2, 3, 1, 2, 3, 1, 2, 3, 1>>

(* The try block of fetch_sample_data raised in this run: the fallback   *)
(* was taken or the exception went out to run().                          *)
RetrievalFailed == used_fallback \/ failed_at = "fetch"

(* C3: when the remote retrieval fails, whatever the failure (timeout,    *)
(* connection error, HTTP status, malformed payload), fetch_sample_data   *)
(* returns the fallback dataset: exactly 10 records, the i-th (i = 0..9)  *)
(* with id i + 1 and userId (i mod 3) + 1, the groups running             *)
(* 1,2,3,1,2,3,1,2,3,1, in every run.                                     *)
C3_FallbackDataset ==
    RetrievalFailed => (used_fallback /\ FallbackDatasetReturned)

(* C4: for every record list that reaches perform_analysis, null ids and  *)
(* null userIds included, the per-group counts of user_breakdown sum to   *)
(* data_summary.total_records, which is the number of input records.      *)
C4_CountsSumToTotal ==
    (pc = "save_csv") =>
        /\ SumOver(DOMAIN analysis.user_breakdown,
                   [g \in DOMAIN analysis.user_breakdown |-> analysis.user_breakdown[g].id])
              = analysis.data_summary.total_records
        /\ analysis.data_summary.total_records = Len(raw_data.items)

(* C5: a record whose title or body is absent or null does not make the   *)
(* transform fail; it gets title length 0 (missing title) and word count  *)
(* 0 (missing body), and the analysis then completes on these values.     *)
C5_MissingTextCountsAsEmpty ==
    ( /\ "process" \in Range(trace)
      /\ raw_data.items # <<>>
      /\ {"id", "userId"} \subseteq FrameColumns(raw_data.items) ) =>
        /\ failed_at # "process"
        /\ \A i \in 1..Len(raw_data.items) :
              /\ (raw_data.items[i].title.tag # "val")
                    => (processed_df[i].title_length = Num(0))
              /\ (raw_data.items[i].body.tag # "val")
                    => (processed_df[i].body_word_count = Num(0))
        /\ ("analysis" \in Range(trace)) => (failed_at # "analysis")

(* C8: for every record list, the keys of user_breakdown are exactly the  *)
(* userId values occurring in the records, and their number is            *)
(* data_summary.unique_users.                                             *)
C8_BreakdownKeysAreTheGroups ==
    (pc = "save_csv") =>
        /\ {IntVal(g) : g \in DOMAIN analysis.user_breakdown}
              = {processed_df[i].userId : i \in 1..Len(processed_df)}
        /\ Cardinality(DOMAIN analysis.user_breakdown) = analysis.data_summary.unique_users

(* C9: for every non-empty record list that the analysis summarises,      *)
(* min_title_length <= title length of every record <= max_title_length,  *)
(* and both bounds are attained by some record.                           *)
C9_TitleLengthBounds ==
    (pc = "save_csv" /\ Len(processed_df) > 0) =>
        /\ \A i \in 1..Len(processed_df) :
              /\ ~processed_df[i].title_length.nan
              /\ analysis.data_summary.min_title_length <= processed_df[i].title_length.v
              /\ processed_df[i].title_length.v <= analysis.data_summary.max_title_length
        /\ \E i \in 1..Len(processed_df) :
              processed_df[i].title_length = Num(analysis.data_summary.min_title_length)
        /\ \E i \in 1..Len(processed_df) :
              processed_df[i].title_length = Num(analysis.data_summary.max_title_length)

UsedIds == {history[i].uuid : i \in DOMAIN history}

LastRun(e) == history[MaxOf({i \in DOMAIN history : history[i].uuid = e})]

AllSuccessful == \A i \in DOMAIN history : history[i].status = 0

PathsOf(ids) == {CsvPath(e) : e \in ids} \cup {JsonPath(e) : e \in ids}

(* C6: the output paths depend on the execution id alone.  While every    *)
(* finished run was successful, each id used has exactly its CSV/JSON     *)
(* pair, holding the output of the most recent run with that id, and the  *)
(* run in progress has touched no file of another id.                     *)
C6_PathsScopedByExecutionId ==
    AllSuccessful =>
        /\ \A e \in UsedIds :
              (pc = "exited" \/ e # execution_uuid) =>
                  /\ HasFile(CsvPath(e), File(LastRun(e).df))
                  /\ HasFile(JsonPath(e), File(LastRun(e).analysis))
        /\ DOMAIN fs \subseteq PathsOf(UsedIds \cup {execution_uuid})
        /\ (pc = "exited") => (Cardinality(DOMAIN fs) = 2 * Cardinality(UsedIds))

C6_Witness ==
    /\ pc = "exited"
    /\ Len(history) = 2
    /\ AllSuccessful
    /\ history[1].uuid = history[2].uuid
    /\ history[1].df # history[2].df
    /\ DOMAIN fs = PathsOf({execution_uuid})
    /\ fs[CsvPath(execution_uuid)] = File(history[2].df)

(* C7: when save_results fails after the CSV was written and before the   *)
(* report is written, run() returns 1, this run's CSV is on disk, and the *)
(* report path holds no report of this run (nothing of it when the file   *)
(* could not be opened, no complete report when the dump stopped).        *)
C7_FailureBetweenTheFiles ==
    /\ (failed_at \in {"save:json_open", "save:json_write"}) =>
          /\ Returned => (status = 1)
          /\ HasFile(CsvPath(execution_uuid), File(processed_df))
          /\ ~HasFile(JsonPath(execution_uuid), File(analysis))
    /\ (failed_at = "save:json_open") =>
          \/ JsonPath(execution_uuid) \notin DOMAIN fs
          \/ fs[JsonPath(execution_uuid)].data # analysis

C7_Witness ==
    /\ pc = "exited"
    /\ failed_at = "save:json_open"
    /\ status = 1
    /\ CsvPath(execution_uuid) \in DOMAIN fs

(* C10: the stages start in the order fetch, process, analysis, save,     *)
(* simulate and none starts after one has failed; run() returns 0 only    *)
(* with both files of this execution id written in this run, CSV first,   *)
(* from one record set; a failure of the simulated work returns 1 with    *)
(* both files written.                                                    *)
C10_StagesInOrder ==
    /\ IsPrefix(trace, Stages)
    /\ (failed_at # "none") => (trace # <<>> /\ trace[Len(trace)] = FailedStage)
    /\ (status = 0) => BothWritten
    /\ (failed_at = "simulate") => (BothWritten /\ (Returned => status = 1))

C10_Witness ==
    /\ pc = "exited"
    /\ failed_at = "simulate"
    /\ status = 1
    /\ Len(writes) = 2
    /\ batch = 2

====
